---- MODULE Spec2Model ----
(***************************************************************************)
(* Model of the victron_ble Home Assistant integration:                    *)
(*   custom_components/victron_ble/device.py    (VictronBluetoothDeviceData*)
(*       with a per-object key, the result mapper over 13 record variants) *)
(*   custom_components/victron_ble/__init__.py  (the data class the        *)
(*       integration instantiates, async_setup_entry, async_unload_entry)  *)
(*   custom_components/victron_ble/config_flow.py (ConfigFlow)             *)
(*                                                                         *)
(* Numeric readings are integers in hundredths of the physical unit, so    *)
(* 1280 is 12.80 V.  A getter result is a tagged value: None, a number,    *)
(* +/-infinity or an enumeration member (by name).                         *)
(***************************************************************************)
EXTENDS Integers, Sequences, FiniteSets, TLC

VARIABLES dev, flow, entries, hassData, objs

vars == <<dev, flow, entries, hassData, objs>>

(***************************************************************************)
(* Bounds of the model                                                     *)
(***************************************************************************)
MaxUpdates == 2        \* advertisements decoded by one data object
MaxPerturb == 1        \* fields of a record that deviate from a full reading
MaxCells == 5          \* length of a SmartLithium cell-voltage list
MaxEntries == 2        \* config entries created by the config flow
MaxEntryUpdates == 1   \* advertisements decoded for one config entry

(***************************************************************************)
(* Values                                                                  *)
(***************************************************************************)
None == [t |-> "none", n |-> 0, s |-> ""]
Num(v) == [t |-> "num", n |-> v, s |-> ""]
Str(v) == [t |-> "str", n |-> 0, s |-> v]
En(v) == [t |-> "enum", n |-> 0, s |-> v]
PosInf == [t |-> "inf", n |-> 1, s |-> ""]
NegInf == [t |-> "inf", n |-> -1, s |-> ""]

NoKey == "<no key>"
NoType == "<no type>"

Put(f, k, v) == [y \in (DOMAIN f) \cup {k} |-> IF y = k THEN v ELSE f[y]]

\* Python truthiness of a getter result: None, 0 and 0.0 are falsy, enum
\* members and non-empty strings are truthy.
Truthy(v) ==
    CASE v.t = "none" -> FALSE
      [] v.t = "num" -> v.n # 0
      [] v.t = "str" -> v.s # ""
      [] OTHER -> TRUE

\* str.lower() on the names the enumerations and the VE.Bus getters yield.
LowerTable ==
    [x \in {"BULK", "NO_ERROR", "NO_REASON", "NO_ALARM", "ON", "AC_IN_1",
            "BALANCING", "STARTER_VOLTAGE", "MIDPOINT_VOLTAGE", "TEMPERATURE",
            "DISABLED", "Inverting", "No Alarm"} |->
        CASE x = "BULK" -> "bulk"
          [] x = "NO_ERROR" -> "no_error"
          [] x = "NO_REASON" -> "no_reason"
          [] x = "NO_ALARM" -> "no_alarm"
          [] x = "ON" -> "on"
          [] x = "AC_IN_1" -> "ac_in_1"
          [] x = "BALANCING" -> "balancing"
          [] x = "STARTER_VOLTAGE" -> "starter_voltage"
          [] x = "MIDPOINT_VOLTAGE" -> "midpoint_voltage"
          [] x = "TEMPERATURE" -> "temperature"
          [] x = "DISABLED" -> "disabled"
          [] x = "Inverting" -> "inverting"
          [] x = "No Alarm" -> "no alarm"]

Lower(s) == LowerTable[s]

\* round(x, 2) of sensor_state_data for a value held in 1/10000 units
\* (a product of two readings in hundredths): the result is in hundredths,
\* ties go to the even neighbour.
Round2(p) ==
    LET q == p \div 100
        r == p % 100
    IN  IF r < 50 THEN q
        ELSE IF r > 50 THEN q + 1
        ELSE IF q % 2 = 0 THEN q ELSE q + 1

(***************************************************************************)
(* One statement of the mapper: either the evaluation of its arguments     *)
(* raises, or update_sensor / update_predefined_sensor is called.          *)
(***************************************************************************)
Emit(key, unit, dc, val) ==
    [raise |-> FALSE, key |-> key, unit |-> unit, dc |-> dc, val |-> val]

Raise == [raise |-> TRUE, key |-> "", unit |-> "", dc |-> "", val |-> None]

\* native_value = <getter>().name.lower(): AttributeError unless the getter
\* yields an enumeration member.
EmitEnumName(key, v) ==
    IF v.t = "enum" THEN Emit(key, "None", "enum", Str(Lower(v.s))) ELSE Raise

\* native_value = <getter>().lower(): AttributeError unless the getter yields
\* a string.
EmitLower(key, v) ==
    IF v.t = "str" THEN Emit(key, "None", "enum", Str(Lower(v.s))) ELSE Raise

EmitProduct_SignDropped(key, unit, dc, a, b, sign) ==
    IF a.t = "num" /\ b.t = "num"
    THEN Emit(key, unit, dc, Num(Round2(a.n * b.n)))
    ELSE Raise

\* native_value = a * b: TypeError when an operand is None.
EmitProduct(key, unit, dc, a, b, sign) ==
    IF a.t = "num" /\ b.t = "num"
    THEN Emit(key, unit, dc, Num(Round2(a.n * b.n * sign)))
    ELSE Raise

\* update_predefined_sensor(SensorLibrary.X, value): the key is the device
\* class of the base description.
Predef(lib, val) ==
    CASE lib = "TEMPERATURE__CELSIUS" -> Emit("temperature", "C", "temperature", val)
      [] lib = "VOLTAGE__ELECTRIC_POTENTIAL_VOLT" -> Emit("voltage", "V", "voltage", val)
      [] lib = "CURRENT__ELECTRIC_CURRENT_AMPERE" -> Emit("current", "A", "current", val)
      [] lib = "BATTERY__PERCENTAGE" -> Emit("battery", "%", "battery", val)
      [] lib = "POWER__POWER_WATT" -> Emit("power", "W", "power", val)

Opt(cond, step) == IF cond THEN <<step>> ELSE <<>>

(***************************************************************************)
(* The result mapper of device.py: for a parsed record p, the statements   *)
(* of the branch taken, in program order.                                  *)
(***************************************************************************)
G(p, field) == p.f[field]

DcEnergyMeterSteps(p) ==
    << Predef("VOLTAGE__ELECTRIC_POTENTIAL_VOLT", G(p, "voltage")),
       Predef("CURRENT__ELECTRIC_CURRENT_AMPERE", G(p, "current")) >>

AcChargerSteps(p) ==
    << EmitEnumName("operation_mode", G(p, "charge_state")),
       EmitEnumName("charger_error", G(p, "charger_error")),
       Emit("output_voltage", "V", "voltage", G(p, "output_voltage1")),
       Emit("output_current", "A", "current", G(p, "output_current1")),
       Predef("TEMPERATURE__CELSIUS", G(p, "temperature")),
       Predef("CURRENT__ELECTRIC_CURRENT_AMPERE", G(p, "ac_current")),
       EmitProduct("output_power", "W", "power",
                   G(p, "output_current1"), G(p, "output_voltage1"), 1) >>

InverterAlarmName(alarm) ==
    IF Truthy(alarm) THEN Str(Lower(alarm.s)) ELSE None

InverterSteps(p) ==
    << EmitEnumName("operation_mode", G(p, "device_state")),
       Emit("input_voltage", "V", "voltage", G(p, "battery_voltage")),
       Emit("output_voltage", "V", "voltage", G(p, "ac_voltage")),
       Emit("output_current", "A", "current", G(p, "ac_current")),
       Emit("output_power", "W", "power", G(p, "ac_apparent_power")),
       Emit("alarm_reason", "None", "enum", InverterAlarmName(G(p, "alarm"))) >>

OrionXSSteps(p) ==
    << EmitEnumName("operation_mode", G(p, "charge_state")),
       Emit("input_voltage", "V", "voltage", G(p, "input_voltage")),
       Emit("input_current", "A", "current", G(p, "input_current")),
       Emit("output_voltage", "V", "voltage", G(p, "output_voltage")),
       Emit("output_current", "A", "current", G(p, "output_current")),
       EmitEnumName("off_reason", G(p, "off_reason")),
       EmitEnumName("charger_error", G(p, "charger_error")) >>

VEBusSteps(p) ==
    << EmitLower("operation_mode", G(p, "device_state")),
       Emit("battery_voltage", "V", "voltage", G(p, "battery_voltage")),
       Emit("battery_current", "A", "current", G(p, "battery_current")),
       Emit("battery_temperature", "C", "temperature", G(p, "battery_temperature")),
       Predef("BATTERY__PERCENTAGE", G(p, "soc")),
       EmitLower("ac_input_state", G(p, "ac_in_state")),
       Emit("ac_input_power", "W", "power", G(p, "ac_in_power")),
       Emit("ac_output_power", "W", "power", G(p, "ac_out_power")),
       EmitLower("alarm_notification", G(p, "alarm")) >>

SmartBatteryProtectSteps(p) ==
    << EmitEnumName("device_state", G(p, "device_state")),
       EmitEnumName("output_state", G(p, "output_state")),
       EmitEnumName("charger_error", G(p, "error_code")),
       EmitEnumName("alarm_reason", G(p, "alarm_reason")),
       EmitEnumName("warning_reason", G(p, "warning_reason")),
       Emit("input_voltage", "V", "voltage", G(p, "input_voltage")),
       Emit("output_voltage", "V", "voltage", G(p, "output_voltage")),
       EmitEnumName("off_reason", G(p, "off_reason")) >>

BatteryMonitorAuxSteps_Swapped(p) ==
    LET aux_mode == G(p, "aux_mode") IN
    IF aux_mode = En("MIDPOINT_VOLTAGE")
    THEN << Emit("starter_battery_voltage", "V", "voltage", G(p, "starter_voltage")) >>
    ELSE IF aux_mode = En("STARTER_VOLTAGE")
    THEN << Emit("midpoint_voltage", "V", "voltage", G(p, "midpoint_voltage")) >>
    ELSE IF aux_mode = En("TEMPERATURE")
    THEN << Predef("TEMPERATURE__CELSIUS", G(p, "temperature")) >>
    ELSE << >>

BatteryMonitorAuxSteps(p) ==
    LET aux_mode == G(p, "aux_mode") IN
    IF aux_mode = En("MIDPOINT_VOLTAGE")
    THEN << Emit("midpoint_voltage", "V", "voltage", G(p, "midpoint_voltage")) >>
    ELSE IF aux_mode = En("STARTER_VOLTAGE")
    THEN << Emit("starter_battery_voltage", "V", "voltage", G(p, "starter_voltage")) >>
    ELSE IF aux_mode = En("TEMPERATURE")
    THEN << Predef("TEMPERATURE__CELSIUS", G(p, "temperature")) >>
    ELSE << >>

BatteryMonitorSteps(p) ==
    << Predef("VOLTAGE__ELECTRIC_POTENTIAL_VOLT", G(p, "voltage")),
       Predef("CURRENT__ELECTRIC_CURRENT_AMPERE", G(p, "current")),
       Predef("BATTERY__PERCENTAGE", G(p, "soc")),
       EmitEnumName("alarm_reason", G(p, "alarm")),
       Emit("time_remaining", "min", "duration", G(p, "remaining_mins")),
       Emit("consumed_ah", "Ah", "energy_storage", G(p, "consumed_ah")),
       EmitEnumName("aux_mode", G(p, "aux_mode")) >>
    \o BatteryMonitorAuxSteps(p)
    \o << EmitProduct("output_power", "W", "power",
                      G(p, "voltage"), G(p, "current"), 1),
          EmitProduct("consumed_energy", "Wh", "energy",
                      G(p, "voltage"), G(p, "consumed_ah"), -1) >>

BatterySenseSteps_SameSensor(p) ==
    << Predef("TEMPERATURE__CELSIUS", G(p, "temperature")),
       Predef("TEMPERATURE__CELSIUS", G(p, "voltage")) >>

BatterySenseSteps(p) ==
    << Predef("TEMPERATURE__CELSIUS", G(p, "temperature")),
       Predef("VOLTAGE__ELECTRIC_POTENTIAL_VOLT", G(p, "voltage")) >>

SolarChargerSteps(p) ==
    << Predef("POWER__POWER_WATT", G(p, "solar_power")),
       Predef("VOLTAGE__ELECTRIC_POTENTIAL_VOLT", G(p, "battery_voltage")),
       Predef("CURRENT__ELECTRIC_CURRENT_AMPERE", G(p, "battery_charging_current")),
       Emit("yield_today", "Wh", "current", G(p, "yield_today")),
       EmitEnumName("operation_mode", G(p, "charge_state")),
       EmitEnumName("charger_error", G(p, "charger_error")) >>
    \o Opt(Truthy(G(p, "external_device_load")),
           Emit("external_device_load", "A", "current", G(p, "external_device_load")))

MultiRSSteps(p) ==
    << Predef("VOLTAGE__ELECTRIC_POTENTIAL_VOLT", G(p, "battery_voltage")),
       Predef("CURRENT__ELECTRIC_CURRENT_AMPERE", G(p, "battery_current")),
       Emit("ac_input_power", "W", "power", G(p, "active_ac_in_power")),
       Emit("ac_output_power", "W", "power", G(p, "active_ac_out_power")),
       Predef("POWER__POWER_WATT", G(p, "pv_power")),
       Emit("yield_today", "kWh", "energy", G(p, "yield_today")),
       EmitEnumName("device_state", G(p, "device_state")),
       EmitEnumName("charger_error", G(p, "charger_error")),
       EmitEnumName("ac_input_state", G(p, "active_ac_in")) >>

DcDcConverterSteps(p) ==
    << EmitEnumName("operation_mode", G(p, "charge_state")),
       Emit("input_voltage", "V", "voltage", G(p, "input_voltage")),
       Emit("output_voltage", "V", "voltage", G(p, "output_voltage")),
       EmitEnumName("off_reason", G(p, "off_reason")),
       EmitEnumName("charger_error", G(p, "charger_error")) >>

\* cell_voltage_keys of the SmartLithium branch: VictronSensor.CELL_VOLTAGE_1
\* .. CELL_VOLTAGE_16.
NumCellKeys == 16

CellKeyTable ==
    << "cell_voltage_1", "cell_voltage_2", "cell_voltage_3", "cell_voltage_4",
       "cell_voltage_5", "cell_voltage_6", "cell_voltage_7", "cell_voltage_8",
       "cell_voltage_9", "cell_voltage_10", "cell_voltage_11", "cell_voltage_12",
       "cell_voltage_13", "cell_voltage_14", "cell_voltage_15", "cell_voltage_16" >>

cell_voltage_keys(i) == CellKeyTable[i]

CellValid_NoInfCheck(voltage) == voltage.t # "none"

\* The guard of the cell loop: voltage is not None and not +/-inf.
CellValid(voltage) == voltage.t # "none" /\ voltage.t # "inf"

\* for i, (key, voltage) in enumerate(zip(cell_voltage_keys, cell_voltages))
RECURSIVE CellSteps(_, _)
CellSteps(cells, i) ==
    IF i > Len(cells) \/ i > NumCellKeys THEN << >>
    ELSE Opt(CellValid(cells[i]),
             Emit(cell_voltage_keys(i), "V", "voltage", cells[i]))
         \o CellSteps(cells, i + 1)

SmartLithiumSteps(p) ==
    Opt(G(p, "battery_voltage") # None,
        Emit("voltage", "V", "voltage", G(p, "battery_voltage")))
    \o << Predef("TEMPERATURE__CELSIUS", G(p, "battery_temperature")) >>
    \o CellSteps(p.cells, 1)
    \o Opt(Truthy(G(p, "balancer_status")),
           EmitEnumName("balancer_status", G(p, "balancer_status")))

LynxSmartBMSSteps(p) ==
    Opt(G(p, "voltage") # None,
        Emit("voltage", "V", "voltage", G(p, "voltage")))
    \o << Predef("CURRENT__ELECTRIC_CURRENT_AMPERE", G(p, "current")),
          Predef("BATTERY__PERCENTAGE", G(p, "soc")),
          Emit("remaining_mins", "min", "duration", G(p, "remaining_mins")),
          Emit("consumed_ah", "None", "None", G(p, "consumed_ah")) >>
    \o Opt(G(p, "voltage") # None /\ G(p, "current") # None,
           EmitProduct("output_power", "W", "power",
                       G(p, "voltage"), G(p, "current"), 1))

\* isinstance(parsed, <cls>Data)
IsInstance(p, cls) == p.variant = cls

\* The if / elif chain of device.py, in its order.
DeviceSteps(p) ==
    IF IsInstance(p, "DcEnergyMeter") THEN DcEnergyMeterSteps(p)
    ELSE IF IsInstance(p, "AcCharger") THEN AcChargerSteps(p)
    ELSE IF IsInstance(p, "Inverter") THEN InverterSteps(p)
    ELSE IF IsInstance(p, "OrionXS") THEN OrionXSSteps(p)
    ELSE IF IsInstance(p, "VEBus") THEN VEBusSteps(p)
    ELSE IF IsInstance(p, "SmartBatteryProtect") THEN SmartBatteryProtectSteps(p)
    ELSE IF IsInstance(p, "BatteryMonitor") THEN BatteryMonitorSteps(p)
    ELSE IF IsInstance(p, "BatterySense") THEN BatterySenseSteps(p)
    ELSE IF IsInstance(p, "SolarCharger") THEN SolarChargerSteps(p)
    ELSE IF IsInstance(p, "MultiRS") THEN MultiRSSteps(p)
    ELSE IF IsInstance(p, "DcDcConverter") THEN DcDcConverterSteps(p)
    ELSE IF IsInstance(p, "SmartLithium") THEN SmartLithiumSteps(p)
    ELSE IF IsInstance(p, "LynxSmartBMS") THEN LynxSmartBMSSteps(p)
    ELSE << >>

\* The if / elif chain of __init__.py.
InitSteps(p) ==
    IF IsInstance(p, "DcEnergyMeter")
    THEN << Predef("VOLTAGE__ELECTRIC_POTENTIAL_VOLT", G(p, "voltage")),
            Predef("CURRENT__ELECTRIC_CURRENT_AMPERE", G(p, "current")) >>
    ELSE IF IsInstance(p, "BatteryMonitor")
    THEN Opt(Truthy(G(p, "temperature")),
             Predef("TEMPERATURE__CELSIUS", G(p, "temperature")))
         \o << Predef("VOLTAGE__ELECTRIC_POTENTIAL_VOLT", G(p, "voltage")),
               Predef("CURRENT__ELECTRIC_CURRENT_AMPERE", G(p, "current")),
               Predef("BATTERY__PERCENTAGE", G(p, "soc")) >>
    ELSE << >>

(***************************************************************************)
(* Parsed records: what device_parser(key).parse(data) hands to the        *)
(* mapper.  A record is [variant, model, f, cells]: f maps the name of     *)
(* each getter the mapper calls to the value it yields, cells is the list  *)
(* get_cell_voltages() yields.                                             *)
(***************************************************************************)
Variants ==
    {"DcEnergyMeter", "AcCharger", "Inverter", "OrionXS", "VEBus",
     "SmartBatteryProtect", "BatteryMonitor", "BatterySense", "SolarCharger",
     "MultiRS", "DcDcConverter", "SmartLithium", "LynxSmartBMS"}

\* The getters a branch reads that yield numbers.
NumFields(variant) ==
    CASE variant = "DcEnergyMeter" -> {"voltage", "current"}
      [] variant = "AcCharger" ->
            {"output_voltage1", "output_current1", "temperature", "ac_current"}
      [] variant = "Inverter" ->
            {"battery_voltage", "ac_voltage", "ac_current", "ac_apparent_power"}
      [] variant = "OrionXS" ->
            {"input_voltage", "input_current", "output_voltage", "output_current"}
      [] variant = "VEBus" ->
            {"battery_voltage", "battery_current", "battery_temperature", "soc",
             "ac_in_power", "ac_out_power"}
      [] variant = "SmartBatteryProtect" -> {"input_voltage", "output_voltage"}
      [] variant = "BatteryMonitor" ->
            {"voltage", "current", "soc", "remaining_mins", "consumed_ah",
             "midpoint_voltage", "starter_voltage", "temperature"}
      [] variant = "BatterySense" -> {"temperature", "voltage"}
      [] variant = "SolarCharger" ->
            {"solar_power", "battery_voltage", "battery_charging_current",
             "yield_today", "external_device_load"}
      [] variant = "MultiRS" ->
            {"battery_voltage", "battery_current", "active_ac_in_power",
             "active_ac_out_power", "pv_power", "yield_today"}
      [] variant = "DcDcConverter" -> {"input_voltage", "output_voltage"}
      [] variant = "SmartLithium" -> {"battery_voltage", "battery_temperature"}
      [] variant = "LynxSmartBMS" ->
            {"voltage", "current", "soc", "remaining_mins", "consumed_ah"}

\* The getters a branch reads that yield enumeration members.
EnumFields(variant) ==
    CASE variant = "AcCharger" -> {"charge_state", "charger_error"}
      [] variant = "Inverter" -> {"device_state", "alarm"}
      [] variant = "OrionXS" -> {"charge_state", "off_reason", "charger_error"}
      [] variant = "VEBus" -> {"device_state", "ac_in_state", "alarm"}
      [] variant = "SmartBatteryProtect" ->
            {"device_state", "output_state", "error_code", "alarm_reason",
             "warning_reason", "off_reason"}
      [] variant = "BatteryMonitor" -> {"alarm", "aux_mode"}
      [] variant = "SolarCharger" -> {"charge_state", "charger_error"}
      [] variant = "MultiRS" -> {"device_state", "charger_error", "active_ac_in"}
      [] variant = "DcDcConverter" -> {"charge_state", "off_reason", "charger_error"}
      [] variant = "SmartLithium" -> {"balancer_status"}
      [] OTHER -> {}

\* A full reading of a numeric field, in hundredths.
NumBase(field) ==
    CASE field = "voltage" -> 1280
      [] field = "current" -> -250
      [] field = "soc" -> 8700
      [] field = "temperature" -> 2340
      [] field = "consumed_ah" -> -1000
      [] field = "remaining_mins" -> 12000
      [] field = "output_voltage1" -> 1445
      [] field = "output_current1" -> 155
      [] OTHER -> 500

\* A recognised member of the enumeration a field holds.
EnumBase(field) ==
    CASE field \in {"charge_state", "device_state"} -> "BULK"
      [] field \in {"charger_error", "error_code"} -> "NO_ERROR"
      [] field = "off_reason" -> "NO_REASON"
      [] field \in {"alarm", "alarm_reason", "warning_reason"} -> "NO_ALARM"
      [] field = "output_state" -> "ON"
      [] field \in {"ac_in_state", "active_ac_in"} -> "AC_IN_1"
      [] field = "balancer_status" -> "BALANCING"
      [] field = "aux_mode" -> "DISABLED"

AuxModes == {"STARTER_VOLTAGE", "MIDPOINT_VOLTAGE", "TEMPERATURE", "DISABLED"}

\* The auxiliary reading a BatteryMonitor parser fills in for an aux mode;
\* the other two getters yield None.
AuxFieldOf(mode) ==
    CASE mode = "STARTER_VOLTAGE" -> "starter_voltage"
      [] mode = "MIDPOINT_VOLTAGE" -> "midpoint_voltage"
      [] mode = "TEMPERATURE" -> "temperature"
      [] OTHER -> ""

AuxFields == {"starter_voltage", "midpoint_voltage", "temperature"}

CellFields == {cell_voltage_keys(i) : i \in 1..MaxCells}

\* The full readings of a variant.  shape selects among them: the aux mode
\* of a BatteryMonitor, the number of populated cells of a SmartLithium
\* pack (unused cells read as the sentinel), and whether the VE.Bus getters
\* yield strings or enumeration members.
Shapes(variant) ==
    CASE variant = "BatteryMonitor" -> AuxModes
      [] variant = "SmartLithium" -> 0..MaxCells
      [] variant = "VEBus" -> {"str", "enum"}
      [] OTHER -> {"full"}

Fields(variant) ==
    NumFields(variant) \cup EnumFields(variant)
    \cup (IF variant = "SmartLithium" THEN CellFields ELSE {})

CellIndex(field) == CHOOSE i \in 1..NumCellKeys : cell_voltage_keys(i) = field

BaseValue(variant, shape, field) ==
    IF variant = "BatteryMonitor" /\ field = "aux_mode" THEN En(shape)
    ELSE IF variant = "BatteryMonitor" /\ field \in AuxFields
    THEN IF field = AuxFieldOf(shape) THEN Num(NumBase(field)) ELSE None
    ELSE IF variant = "SmartLithium" /\ field \in CellFields
    THEN IF CellIndex(field) <= shape THEN Num(330) ELSE None
    ELSE IF variant = "VEBus" /\ field = "device_state"
    THEN IF shape = "str" THEN Str("Inverting") ELSE En("BULK")
    ELSE IF variant = "VEBus" /\ field = "alarm"
    THEN IF shape = "str" THEN Str("No Alarm") ELSE En("NO_ALARM")
    ELSE IF variant = "VEBus" /\ field = "ac_in_state"
    THEN IF shape = "str" THEN Str("AC_IN_1") ELSE En("AC_IN_1")
    ELSE IF field \in NumFields(variant) THEN Num(NumBase(field))
    ELSE En(EnumBase(field))

\* The other values a getter can yield: the sentinel (None), a zero reading,
\* and for a cell voltage also +/-infinity.
Deviations(variant, shape, field) ==
    LET base == BaseValue(variant, shape, field) IN
    IF variant = "BatteryMonitor" /\ field = "aux_mode" THEN {}
    ELSE IF variant = "BatteryMonitor" /\ field \in AuxFields /\ base = None THEN {}
    ELSE IF field \in CellFields /\ variant = "SmartLithium"
    THEN {None, PosInf, NegInf, Num(330)} \ {base}
    ELSE IF field \in NumFields(variant) THEN {None, Num(0)}
    ELSE {None}

ModelName(variant) ==
    CASE variant = "BatteryMonitor" -> "SmartShunt 500A/50mV"
      [] variant = "SolarCharger" -> "SmartSolar MPPT 100|20"
      [] OTHER -> variant

MakeRecord(variant, shape, altered) ==
    [variant |-> variant,
     model |-> ModelName(variant),
     f |-> [x \in Fields(variant) \ CellFields |->
               IF x \in DOMAIN altered THEN altered[x] ELSE BaseValue(variant, shape, x)],
     cells |-> IF variant = "SmartLithium"
               THEN [i \in 1..MaxCells |->
                       LET x == cell_voltage_keys(i) IN
                       IF x \in DOMAIN altered THEN altered[x]
                       ELSE BaseValue(variant, shape, x)]
               ELSE << >>]

\* All records of a variant in which exactly n fields deviate from a full
\* reading.
RecordsOf(variant, n) ==
    UNION { UNION { { MakeRecord(variant, shape, d) :
                        d \in { g \in [S -> UNION {Deviations(variant, shape, x) : x \in S}] :
                                  \A x \in S : g[x] \in Deviations(variant, shape, x) } } :
                    S \in { T \in SUBSET Fields(variant) : Cardinality(T) = n } } :
            shape \in Shapes(variant) }

Records(n) == UNION { RecordsOf(v, n) : v \in Variants }

(***************************************************************************)
(* Advertisements.  A manufacturer payload is abstracted to what the code  *)
(* and the parser library look at: its first byte, whether it is long      *)
(* enough for the header, the device-type discriminator, the key it was    *)
(* encrypted with and the record its plaintext holds.                      *)
(***************************************************************************)
VICTRON_MFR_ID == 737      \* 0x02E1
InstantReadoutTag == 16    \* b"\x10"

HardcodedKey == "aff4d0995b7d1e176c0c33ecb9e70dcd"
UserKey == "00112233445566778899aabbccddeeff"
Keys == {UserKey, HardcodedKey}

Payload(prefix, short, disc, enc_key, rec) ==
    [prefix |-> prefix, short |-> short, disc |-> disc, enc_key |-> enc_key,
     rec |-> rec]

FullRecord(variant) ==
    MakeRecord(variant,
               CASE variant = "BatteryMonitor" -> "TEMPERATURE"
                 [] variant = "SmartLithium" -> MaxCells
                 [] variant = "VEBus" -> "str"
                 [] OTHER -> "full",
               << >>)

\* Payloads that are not a well-formed reading of a supported device: a
\* foreign first byte, a payload shorter than the header, an unknown
\* discriminator.
OddPayloads(k) ==
    { Payload(17, FALSE, "BatteryMonitor", k, FullRecord("BatteryMonitor")),
      Payload(InstantReadoutTag, TRUE, "unknown", k, FullRecord("DcEnergyMeter")),
      Payload(InstantReadoutTag, FALSE, "unknown", k, FullRecord("DcEnergyMeter")) }

\* manufacturer_data is a dict: a list of (id, payload) items with distinct
\* ids, in insertion order.
Advert(items) ==
    [address |-> "AA:BB", name |-> "Victron", rssi |-> -6000, mfr |-> items]

OtherItem == <<76, Payload(InstantReadoutTag, FALSE, "BatteryMonitor", UserKey,
                           FullRecord("BatteryMonitor"))>>

OtherKey(k) == CHOOSE k2 \in Keys : k2 # k

\* Advertisements encrypted with key k that carry no well-formed reading.
OddAdverts(k) ==
    { Advert(<< OtherItem >>),
      Advert(<< OtherItem,
                <<VICTRON_MFR_ID, Payload(InstantReadoutTag, FALSE, "DcEnergyMeter",
                                          k, FullRecord("DcEnergyMeter"))>> >>),
      Advert(<< <<VICTRON_MFR_ID, Payload(InstantReadoutTag, FALSE, "BatteryMonitor",
                                          OtherKey(k), FullRecord("BatteryMonitor"))>> >>) }
    \cup { Advert(<< <<VICTRON_MFR_ID, pl>> >>) : pl \in OddPayloads(k) }

\* Advertisements encrypted with key k whose reading deviates from a full
\* one in exactly n fields.
AdvertsOf(k, n) ==
    { Advert(<< <<VICTRON_MFR_ID,
                  Payload(InstantReadoutTag, FALSE, r.variant, k, r)>> >>) :
        r \in Records(n) }

AdvertTable == [k \in Keys |-> UNION { AdvertsOf(k, n) : n \in 0..MaxPerturb }]

Adverts(k) == AdvertTable[k]

\* The advertisements a device sends routinely: full readings.
RoutineAdverts(k) ==
    { Advert(<< <<VICTRON_MFR_ID,
                  Payload(InstantReadoutTag, FALSE, r.variant, k, r)>> >>) :
        r \in { MakeRecord("BatteryMonitor", "TEMPERATURE", << >>),
                MakeRecord("BatteryMonitor", "MIDPOINT_VOLTAGE", << >>),
                FullRecord("SolarCharger") } }

RoutineAdvertTable == [k \in Keys |-> RoutineAdverts(k)]

OddAdvertTable == [k \in Keys |-> OddAdverts(k)]

\* victron_ble.devices.detect_device_type(data): struct.unpack fails on a
\* payload shorter than the header, an unknown discriminator yields None.
detect_device_type(data) ==
    IF data.short THEN "raise"
    ELSE IF data.disc \in Variants THEN data.disc
    ELSE "None"

\* device_parser(key).parse(data): the key check byte of the payload does
\* not match a key other than the one the payload was encrypted with.
Parse(key, data) ==
    [raise |-> key # data.enc_key, rec |-> data.rec]

(***************************************************************************)
(* VictronBluetoothDeviceData: the state of one data object.  cls tells    *)
(* the two classes of that name apart: "device" (device.py, constructed    *)
(* with a key) and "init" (__init__.py, constructed without).  values and  *)
(* descs are _sensor_values and _sensor_descriptions of the base class,    *)
(* kept from one update to the next.  emitted, outcome, calls, usedKey,    *)
(* handed, parsed, last, before and type_before record the last update:    *)
(* the keys the mapper emitted, how _start_update ended, the number of     *)
(* _process_mfr_data calls, the key given to the parser, the payloads      *)
(* handed to _process_mfr_data, the parsed record, the advertisement, and  *)
(* values and device_type as they were when the update began.  prev is the *)
(* advertisement of the update before the last.                            *)
(***************************************************************************)
NoObj == [cls |-> "none"]
NoRecord == [variant |-> "none"]
NoAdvert == [address |-> "none"]

NewObj(cls, key) ==
    [cls |-> cls, key |-> key, n |-> 0, open |-> TRUE,
     device_name |-> "", manufacturer |-> "", precision |-> 0,
     device_type |-> NoType, values |-> << >>, descs |-> << >>,
     emitted |-> << >>, outcome |-> "none", calls |-> 0, usedKey |-> NoKey,
     handed |-> << >>, parsed |-> NoRecord, last |-> NoAdvert, before |-> << >>,
     type_before |-> NoType, prev |-> NoAdvert]

update_sensor_Accumulates(o, step) ==
    [o EXCEPT !.values =
                 Put(o.values, step.key,
                     IF step.key \in DOMAIN o.values /\ step.val.t = "num"
                        /\ o.values[step.key].t = "num"
                     THEN Num(o.values[step.key].n + step.val.n)
                     ELSE step.val),
              !.descs = Put(o.descs, step.key, [dc |-> step.dc, unit |-> step.unit]),
              !.emitted = Append(o.emitted, step.key)]

\* update_sensor: round floats to the precision, store description and value.
update_sensor(o, step) ==
    [o EXCEPT !.values = Put(o.values, step.key, step.val),
              !.descs = Put(o.descs, step.key, [dc |-> step.dc, unit |-> step.unit]),
              !.emitted = Append(o.emitted, step.key)]

\* The statements of a branch, run until one raises.
RECURSIVE RunSteps(_, _)
RunSteps(o, steps) ==
    IF steps = << >> THEN [o EXCEPT !.outcome = "ok"]
    ELSE IF Head(steps).raise THEN [o EXCEPT !.outcome = "raised"]
    ELSE RunSteps(update_sensor(o, Head(steps)), Tail(steps))

ProcessMfrDataDevice_NoUnsupportedReturn(o, data) ==
    LET o1 == [o EXCEPT !.calls = o.calls + 1, !.handed = Append(o.handed, data)]
        device_parser == detect_device_type(data)
        res == Parse(o.key, data)
    IN  IF device_parser = "raise" THEN [o1 EXCEPT !.outcome = "raised"]
        ELSE IF res.raise THEN [o1 EXCEPT !.outcome = "raised", !.usedKey = o.key]
        ELSE RunSteps([o1 EXCEPT !.usedKey = o.key, !.parsed = res.rec,
                                 !.device_type = res.rec.model],
                      DeviceSteps(res.rec))

\* device.py: VictronBluetoothDeviceData._process_mfr_data
ProcessMfrDataDevice(o, data) ==
    LET o1 == [o EXCEPT !.calls = o.calls + 1, !.handed = Append(o.handed, data)]
        device_parser == detect_device_type(data)
        res == Parse(o.key, data)
    IN  IF device_parser = "raise" THEN [o1 EXCEPT !.outcome = "raised"]
        ELSE IF device_parser = "None" THEN [o1 EXCEPT !.outcome = "unsupported"]
        ELSE IF res.raise THEN [o1 EXCEPT !.outcome = "raised", !.usedKey = o.key]
        ELSE RunSteps([o1 EXCEPT !.usedKey = o.key, !.parsed = res.rec,
                                 !.device_type = res.rec.model],
                      DeviceSteps(res.rec))

\* __init__.py: VictronBluetoothDeviceData._process_mfr_data
ProcessMfrDataInit(o, data) ==
    LET o1 == [o EXCEPT !.calls = o.calls + 1, !.handed = Append(o.handed, data)]
        device_parser == detect_device_type(data)
        res == Parse(HardcodedKey, data)
    IN  IF device_parser = "raise" THEN [o1 EXCEPT !.outcome = "raised"]
        ELSE IF device_parser = "None" THEN [o1 EXCEPT !.outcome = "unsupported"]
        ELSE IF res.raise THEN [o1 EXCEPT !.outcome = "raised", !.usedKey = HardcodedKey]
        ELSE RunSteps([o1 EXCEPT !.usedKey = HardcodedKey, !.parsed = res.rec],
                      InitSteps(res.rec))

SkipDevice_AnyId(mfr_id, mfr_data) == mfr_data.prefix # InstantReadoutTag

\* The filter of the loop over manufacturer_data.items(): TRUE when the
\* item is skipped (continue).
SkipDevice(mfr_id, mfr_data) ==
    mfr_id # VICTRON_MFR_ID \/ mfr_data.prefix # InstantReadoutTag

SkipInit(mfr_id, mfr_data) == mfr_id # VICTRON_MFR_ID

\* for mfr_id, mfr_data in manufacturer_data.items(): ...
RECURSIVE LoopItems(_, _)
LoopItems(o, items) ==
    IF items = << >> \/ o.outcome = "raised" THEN o
    ELSE LET mfr_id == Head(items)[1]
             mfr_data == Head(items)[2]
             skip == IF o.cls = "device" THEN SkipDevice(mfr_id, mfr_data)
                     ELSE SkipInit(mfr_id, mfr_data)
         IN  IF skip THEN LoopItems(o, Tail(items))
             ELSE LoopItems(IF o.cls = "device"
                            THEN ProcessMfrDataDevice(o, mfr_data)
                            ELSE ProcessMfrDataInit(o, mfr_data),
                            Tail(items))

\* _start_update(service_info) of either class.
StartUpdate(o, service_info) ==
    LoopItems([o EXCEPT !.device_name = service_info.name,
                        !.manufacturer = "Victron",
                        !.precision = 2,
                        !.emitted = << >>, !.outcome = "skipped", !.calls = 0,
                        !.usedKey = NoKey, !.handed = << >>, !.parsed = NoRecord,
                        !.last = service_info, !.before = o.values,
                        !.type_before = o.device_type, !.prev = o.last],
              service_info.mfr)

\* BluetoothData.update(service_info), the coordinator's update_method:
\* _start_update, then the signal strength unless _start_update raised.
DataUpdate(o, service_info) ==
    LET o1 == StartUpdate(o, service_info) IN
    IF o1.outcome = "raised" THEN o1
    ELSE [o1 EXCEPT
            !.values = Put(o1.values, "signal_strength", Num(service_info.rssi)),
            !.descs = Put(o1.descs, "signal_strength",
                          [dc |-> "signal_strength", unit |-> "dBm"])]

\* The key the parser of an object is given.
KeyUsedBy(o) == IF o.cls = "device" THEN o.key ELSE HardcodedKey

(***************************************************************************)
(* sensor.py: the table of entity descriptions and the conversion of a     *)
(* sensor update.  A row is the table key (k, u) with the key, device      *)
(* class and unit of the description stored under it.                      *)
(***************************************************************************)
Row(k, u, key, dc, unit) == [k |-> k, u |-> u, key |-> key, dc |-> dc, unit |-> unit]

EnumRow(k) == Row(k, "None", k, "enum", "None")

SENSOR_DESCRIPTIONS ==
    { Row("temperature", "C", "temperature_C", "temperature", "C"),
      Row("voltage", "V", "voltage_V", "voltage", "V"),
      Row("current", "A", "current_A", "current", "A"),
      Row("battery", "%", "battery_%", "battery", "%"),
      Row("input_current", "A", "input_current", "current", "A"),
      Row("output_current", "A", "output_current", "current", "A"),
      Row("yield_today", "Wh", "yield_today", "energy", "Wh"),
      Row("yield_today", "kWh", "yield_today", "energy", "kWh"),
      Row("power", "W", "power_W", "power", "W"),
      EnumRow("aux_mode"), EnumRow("operation_mode"), EnumRow("off_reason"),
      EnumRow("charger_error"),
      Row("external_device_load", "None", "external_device_load", "current", "A"),
      Row("external_device_load", "A", "external_device_load", "current", "A"),
      Row("time_remaining", "min", "time_remaining", "duration", "min"),
      Row("input_voltage", "V", "input_voltage", "voltage", "V"),
      Row("output_voltage", "V", "output_voltage", "voltage", "V"),
      Row("output_power", "W", "output_power", "power", "W"),
      Row("signal_strength", "dBm", "signal_strength_dBm", "signal_strength", "dBm"),
      Row("starter_battery_voltage", "V", "starter_battery_voltage", "voltage", "V"),
      Row("midpoint_voltage", "V", "midpoint_voltage", "voltage", "V"),
      Row("battery_voltage", "V", "battery_voltage", "voltage", "V"),
      Row("battery_current", "A", "battery_current", "current", "A"),
      Row("battery_temperature", "C", "battery_temperature", "temperature", "C"),
      Row("ac_voltage", "V", "ac_voltage", "voltage", "V"),
      Row("ac_current", "A", "ac_current", "current", "A"),
      Row("ac_apparent_power", "VA", "ac_current", "apparent_power", "VA"),
      EnumRow("ac_input_state"),
      Row("ac_input_power", "W", "ac_input_power", "power", "W"),
      Row("ac_output_power", "W", "ac_output_power", "power", "W"),
      Row("consumed_energy", "Wh", "consumed_energy", "energy", "Wh"),
      Row("consumed_ah", "Ah", "consumed_ah", "energy_storage", "Ah"),
      EnumRow("alarm_reason"), EnumRow("alarm_notification"),
      EnumRow("warning_reason"), EnumRow("device_state"), EnumRow("output_state"),
      EnumRow("balancer_status"),
      Row("remaining_mins", "min", "remaining_mins", "duration", "min"),
      Row("consumed_ah", "None", "consumed_ah", "None", "None") }
    \cup { Row(cell_voltage_keys(i), "V", cell_voltage_keys(i), "voltage", "V") :
             i \in 1..NumCellKeys }

\* SENSOR_DESCRIPTIONS[(k, u)]: the rows stored under a table key.
Lookup(k, u) == { d \in SENSOR_DESCRIPTIONS : d.k = k /\ d.u = u }

\* The SensorUpdate that update() of a data object returns: the retained
\* descriptions and values, each under its device key; a value carries the
\* name update_sensor was given for it (a stand-in per key here).
SensorUpdateOf(o) ==
    [entity_descriptions |->
        [k \in DOMAIN o.descs |->
            [device_key |-> k, unit |-> o.descs[k].unit, dc |-> o.descs[k].dc]],
     entity_values |->
        [k \in DOMAIN o.values |->
            [name |-> <<"name", k>>, native_value |-> o.values[k]]]]

\* The descriptions the conversion looks up: those that carry a device key.
Described(su) ==
    { k \in DOMAIN su.entity_descriptions :
        su.entity_descriptions[k].device_key # "None" }

EntityData_DropsNone(su) ==
    [k \in { x \in DOMAIN su.entity_values :
               su.entity_values[x].native_value # None } |->
        su.entity_values[k].native_value]

\* entity_data = {key: sensor_values.native_value for ... in entity_values}
EntityData(su) ==
    [k \in DOMAIN su.entity_values |-> su.entity_values[k].native_value]

\* entity_names = {key: sensor_values.name for ... in entity_values}
EntityNames(su) ==
    [k \in DOMAIN su.entity_values |-> su.entity_values[k].name]

sensor_update_to_bluetooth_data_update_ByDeviceClass(o) ==
    LET su == SensorUpdateOf(o) IN
    [raise |-> \E k \in Described(su) :
                  Lookup(k, su.entity_descriptions[k].dc) = {},
     entity_descriptions |->
        [k \in Described(su) |-> Lookup(k, su.entity_descriptions[k].dc)],
     entity_data |-> EntityData(su),
     entity_names |-> EntityNames(su)]

\* sensor_update_to_bluetooth_data_update(sensor_update): every description
\* of the update that carries a device key is looked up under (key, native
\* unit), a missing table key being a KeyError; values and names are copied.
sensor_update_to_bluetooth_data_update(o) ==
    LET su == SensorUpdateOf(o) IN
    [raise |-> \E k \in Described(su) :
                  Lookup(k, su.entity_descriptions[k].unit) = {},
     entity_descriptions |->
        [k \in Described(su) |-> Lookup(k, su.entity_descriptions[k].unit)],
     entity_data |-> EntityData(su),
     entity_names |-> EntityNames(su)]

\* VictronBluetoothSensorEntity.native_value: processor.entity_data.get(key)
native_value(o, entity_key) ==
    LET entity_data == EntityData(SensorUpdateOf(o))
    IN  IF entity_key \in DOMAIN entity_data THEN entity_data[entity_key] ELSE None

(***************************************************************************)
(* The integration: config flow, config entries, hass.data[DOMAIN] and the *)
(* data object async_setup_entry gives each entry's coordinator.           *)
(***************************************************************************)
NoneStr == "None"
Addrs == {"AA:BB", "CC:DD"}

NoFlow ==
    [step |-> "none", source |-> NoneStr, unique_id |-> NoneStr,
     discovery_name |-> NoneStr, discovery_address |-> NoneStr,
     default_name |-> NoneStr, default_address |-> NoneStr, reason |-> NoneStr,
     user_input |-> [name |-> NoneStr, address |-> NoneStr, key |-> NoneStr]]

\* The "key" field of the form is a str with no further validation: the
\* user can submit a 16-byte key in hex or any other string.
ShortKey == "0011"
FormKeys == Keys \cup {ShortKey}

\* The number of bytes a key string denotes.
KeyBytes(k) == IF k = ShortKey THEN 2 ELSE 16

\* What the user can submit in the form of step "user": a name of their
\* own, which is not the name a discovery puts in the form as default.
UserInputs == [name : {"Boat"}, address : Addrs, key : FormKeys]

Configured(unique_id) ==
    \E i \in 1..Len(entries) : entries[i].unique_id = unique_id

\* async_step_user(None): the form, its defaults from the discovery context.
ShowUserForm(fl) ==
    [fl EXCEPT !.step = "form",
               !.default_name = fl.discovery_name,
               !.default_address = fl.discovery_address]

(***************************************************************************)
(* The data object on its own                                              *)
(***************************************************************************)
Init ==
    /\ dev = NoObj
    /\ flow = NoFlow
    /\ entries = << >>
    /\ hassData = {}
    /\ objs = << >>

\* device.py: VictronBluetoothDeviceData(key)
ConstructDevice ==
    /\ dev = NoObj
    /\ dev' = NewObj("device", UserKey)
    /\ UNCHANGED <<flow, entries, hassData, objs>>

\* __init__.py: VictronBluetoothDeviceData()
ConstructInit ==
    /\ dev = NoObj
    /\ dev' = NewObj("init", NoKey)
    /\ UNCHANGED <<flow, entries, hassData, objs>>

\* An object decodes up to MaxUpdates advertisements: routine ones (full
\* readings), then at most one arbitrary advertisement, after which the
\* model follows the object no further (open is FALSE).

\* update() with a routine advertisement.
UpdateRoutine ==
    /\ dev # NoObj
    /\ dev.open
    /\ dev.n < MaxUpdates
    /\ \E si \in RoutineAdvertTable[KeyUsedBy(dev)] :
          dev' = [DataUpdate(dev, si) EXCEPT !.n = dev.n + 1]
    /\ UNCHANGED <<flow, entries, hassData, objs>>

\* update() with an advertisement that carries any reading, encrypted with
\* the key the object decodes with.
UpdateReading ==
    /\ dev # NoObj
    /\ dev.open
    /\ dev.n < MaxUpdates
    /\ \E si \in Adverts(KeyUsedBy(dev)) :
          dev' = [DataUpdate(dev, si) EXCEPT !.n = dev.n + 1, !.open = FALSE]
    /\ UNCHANGED <<flow, entries, hassData, objs>>

\* update() with any other advertisement: no Victron item, a Victron item
\* after a foreign one, a foreign prefix, a truncated payload, an unknown
\* device type, or a reading encrypted with another key.
UpdateOdd ==
    /\ dev # NoObj
    /\ dev.open
    /\ dev.n < MaxUpdates
    /\ \E si \in OddAdvertTable[KeyUsedBy(dev)] :
          dev' = [DataUpdate(dev, si) EXCEPT !.n = dev.n + 1, !.open = FALSE]
    /\ UNCHANGED <<flow, entries, hassData, objs>>

\* update() with the advertisement decoded last, received once more.
UpdateRepeat ==
    /\ dev # NoObj
    /\ dev.n > 0
    /\ dev.n < MaxUpdates
    /\ dev' = [DataUpdate(dev, dev.last) EXCEPT !.n = dev.n + 1]
    /\ UNCHANGED <<flow, entries, hassData, objs>>

Next ==
    \/ ConstructDevice
    \/ ConstructInit
    \/ UpdateRoutine
    \/ UpdateReading
    \/ UpdateOdd
    \/ UpdateRepeat

Spec == Init /\ [][Next]_vars

(***************************************************************************)
(* Actions of the integration                                              *)
(***************************************************************************)
FlowIdle == flow.step \in {"none", "aborted", "created", "no_result"}

\* ConfigFlow.async_step_bluetooth(discovery_info), a new flow
async_step_bluetooth ==
    /\ FlowIdle
    /\ Len(entries) < MaxEntries
    /\ \E address \in Addrs :
         LET fl == [NoFlow EXCEPT !.source = "bluetooth",
                                  !.discovery_name = "Victron",
                                  !.discovery_address = address,
                                  !.unique_id = address]
         IN  flow' = IF Configured(address)
                     THEN [fl EXCEPT !.step = "aborted", !.reason = "already_configured"]
                     ELSE ShowUserForm(fl)
    /\ UNCHANGED <<dev, entries, hassData, objs>>

\* ConfigFlow.async_step_unignore(user_input), a new flow: the unique id is
\* set, async_abort builds its result, and the handler ends without a
\* return statement, so that what it returns is None ("no_result").
async_step_unignore ==
    /\ FlowIdle
    /\ \E unique_id \in {"AA:BB"} :
         flow' = [NoFlow EXCEPT !.source = "unignore",
                                !.unique_id = unique_id,
                                !.step = "no_result"]
    /\ UNCHANGED <<dev, entries, hassData, objs>>

\* ConfigFlow.async_step_user(None), a new flow started by the user
async_step_user_init ==
    /\ FlowIdle
    /\ Len(entries) < MaxEntries
    /\ flow' = ShowUserForm([NoFlow EXCEPT !.source = "user"])
    /\ UNCHANGED <<dev, entries, hassData, objs>>

async_step_user_submit_TitleFromDefault ==
    /\ flow.step = "form"
    /\ \E user_input \in UserInputs :
         /\ flow' = [flow EXCEPT !.step = "created", !.user_input = user_input]
         /\ entries' = Append(entries,
                              [entry_id |-> Len(entries) + 1,
                               unique_id |-> flow.unique_id,
                               title |-> flow.default_name,
                               data |-> user_input,
                               state |-> "not_loaded",
                               steps |-> << >>,
                               processors |-> 0,
                               subscribed_at_start |-> FALSE,
                               platform_lookup |-> "none",
                               unload_result |-> "none"])
    /\ UNCHANGED <<dev, hassData, objs>>

\* ConfigFlow.async_step_user(user_input): the form is submitted
async_step_user_submit ==
    /\ flow.step = "form"
    /\ \E user_input \in UserInputs :
         /\ flow' = [flow EXCEPT !.step = "created", !.user_input = user_input]
         /\ entries' = Append(entries,
                              [entry_id |-> Len(entries) + 1,
                               unique_id |-> flow.unique_id,
                               title |-> user_input.name,
                               data |-> user_input,
                               state |-> "not_loaded",
                               steps |-> << >>,
                               processors |-> 0,
                               subscribed_at_start |-> FALSE,
                               platform_lookup |-> "none",
                               unload_result |-> "none"])
    /\ UNCHANGED <<dev, hassData, objs>>

\* sensor.py: async_setup_entry(hass, entry, async_add_entities), run by
\* async_forward_entry_setups: the coordinator is looked up in
\* hass.data[DOMAIN] as it is at that moment (data) and a processor is
\* registered with it.
SensorPlatformSetup(entry, data) ==
    IF entry.entry_id \in data
    THEN [entry EXCEPT !.platform_lookup = "found",
                       !.processors = entry.processors + 1,
                       !.steps = Append(entry.steps, "forward")]
    ELSE [entry EXCEPT !.platform_lookup = "KeyError",
                       !.steps = Append(entry.steps, "forward")]

\* coordinator.async_start()
CoordinatorStart(entry) ==
    [entry EXCEPT !.subscribed_at_start = entry.processors > 0,
                  !.steps = Append(entry.steps, "start")]

async_setup_entry_StartsFirst ==
    \E i \in 1..Len(entries) :
      /\ entries[i].state = "not_loaded"
      /\ IF entries[i].unique_id = NoneStr
         THEN /\ entries' = [entries EXCEPT ![i].state = "setup_error"]
              /\ UNCHANGED <<hassData, objs>>
         ELSE LET id == entries[i].entry_id
                  e0 == [entries[i] EXCEPT !.steps = << >>, !.processors = 0,
                                           !.unload_result = "none"]
                  e1 == CoordinatorStart([e0 EXCEPT !.steps = <<"store">>])
                  e2 == SensorPlatformSetup(e1, hassData \cup {id})
              IN  /\ entries' = [entries EXCEPT ![i] = [e2 EXCEPT !.state = "loaded"]]
                  /\ hassData' = hassData \cup {id}
                  /\ objs' = Put(objs, id, NewObj("init", NoKey))
      /\ UNCHANGED <<dev, flow>>

\* __init__.py: async_setup_entry(hass, entry): the assertion, the data
\* object, the coordinator stored in hass.data[DOMAIN], the platforms
\* forwarded, the coordinator started.
async_setup_entry ==
    \E i \in 1..Len(entries) :
      /\ entries[i].state = "not_loaded"
      /\ IF entries[i].unique_id = NoneStr
         THEN /\ entries' = [entries EXCEPT ![i].state = "setup_error"]
              /\ UNCHANGED <<hassData, objs>>
         ELSE LET id == entries[i].entry_id
                  e0 == [entries[i] EXCEPT !.steps = << >>, !.processors = 0,
                                           !.unload_result = "none"]
                  e1 == [e0 EXCEPT !.steps = <<"store">>]
                  e2 == SensorPlatformSetup(e1, hassData \cup {id})
                  e3 == CoordinatorStart(e2)
              IN  /\ entries' = [entries EXCEPT ![i] = [e3 EXCEPT !.state = "loaded"]]
                  /\ hassData' = hassData \cup {id}
                  /\ objs' = Put(objs, id, NewObj("init", NoKey))
      /\ UNCHANGED <<dev, flow>>

async_unload_entry_AlwaysPops ==
    \E i \in 1..Len(entries) :
      LET id == entries[i].entry_id IN
      /\ entries[i].state = "loaded"
      /\ \E unload_ok \in BOOLEAN :
            /\ hassData' = hassData \ {id}
            /\ objs' = [k \in (DOMAIN objs) \ {id} |-> objs[k]]
            /\ entries' = [entries EXCEPT ![i] =
                              [@ EXCEPT !.state = IF unload_ok THEN "not_loaded"
                                                  ELSE "failed_unload",
                                        !.unload_result = IF unload_ok THEN "true"
                                                          ELSE "false"]]
      /\ UNCHANGED <<dev, flow>>

\* __init__.py: async_unload_entry(hass, entry).  unload_ok is what
\* async_unload_platforms returns; when it is true the platform's
\* processor is gone and the entry's coordinator, with its data object, is
\* popped from hass.data[DOMAIN].
async_unload_entry ==
    \E i \in 1..Len(entries) :
      LET id == entries[i].entry_id IN
      /\ entries[i].state = "loaded"
      /\ \E unload_ok \in BOOLEAN :
            IF unload_ok
            THEN /\ hassData' = hassData \ {id}
                 /\ objs' = [k \in (DOMAIN objs) \ {id} |-> objs[k]]
                 /\ entries' = [entries EXCEPT ![i] =
                                   [@ EXCEPT !.state = "not_loaded",
                                             !.steps = << >>,
                                             !.processors = 0,
                                             !.subscribed_at_start = FALSE,
                                             !.platform_lookup = "none",
                                             !.unload_result = "true"]]
            ELSE /\ entries' = [entries EXCEPT ![i] =
                                   [@ EXCEPT !.state = "failed_unload",
                                             !.unload_result = "false"]]
                 /\ UNCHANGED <<hassData, objs>>
      /\ UNCHANGED <<dev, flow>>

\* The advertisements the device of an entry broadcasts: it encrypts with
\* its own key, the one the user entered in the form unless the entry does
\* not hold a 16-byte key.  The device at the first address is a
\* BatteryMonitor, the one at the second a DcEnergyMeter.
EntryAdverts(entry) ==
    LET k == IF KeyBytes(entry.data.key) = 16 THEN entry.data.key ELSE HardcodedKey
        v == IF entry.unique_id = "AA:BB" THEN "BatteryMonitor" ELSE "DcEnergyMeter"
    IN  { Advert(<< <<VICTRON_MFR_ID,
                      Payload(InstantReadoutTag, FALSE, v, k, FullRecord(v))>> >>) }

EntryUpdate_SharedObject ==
    \E i \in 1..Len(entries) :
      LET id == entries[i].entry_id IN
      /\ id \in hassData
      /\ objs[id].n < MaxEntryUpdates
      /\ \E si \in EntryAdverts(entries[i]) :
            objs' = [j \in DOMAIN objs |->
                        [DataUpdate(objs[id], [si EXCEPT !.address = entries[i].unique_id])
                            EXCEPT !.n = objs[j].n + (IF j = id THEN 1 ELSE 0)]]
      /\ UNCHANGED <<dev, flow, entries, hassData>>

\* The coordinator of a loaded entry passes an advertisement of the entry's
\* address to update_method = data.update.
EntryUpdate ==
    \E i \in 1..Len(entries) :
      LET id == entries[i].entry_id IN
      /\ id \in hassData
      /\ objs[id].n < MaxEntryUpdates
      /\ \E si \in EntryAdverts(entries[i]) :
            objs' = [objs EXCEPT ![id] =
                        [DataUpdate(objs[id], [si EXCEPT !.address = entries[i].unique_id])
                            EXCEPT !.n = objs[id].n + 1]]
      /\ UNCHANGED <<dev, flow, entries, hassData>>

NextHass ==
    \/ async_step_bluetooth
    \/ async_step_user_init
    \/ async_step_user_submit
    \/ async_step_unignore
    \/ async_setup_entry
    \/ async_unload_entry
    \/ EntryUpdate

SpecHass == Init /\ [][NextHass]_vars

(***************************************************************************)
(* Properties                                                              *)
(***************************************************************************)
Range(seq) == { seq[j] : j \in 1..Len(seq) }

\* A value map without the entry update() adds after _start_update.
Sans(f) == [k \in (DOMAIN f) \ {"signal_strength"} |-> f[k]]

\* The last update left measurements and device-model label as they were.
Untouched(o) ==
    /\ o.emitted = << >>
    /\ Sans(o.values) = Sans(o.before)
    /\ o.device_type = o.type_before

\* C1: for every config entry, a decode of an advertisement of the entry's
\* device gives the parser the key stored in the entry's data; no decode
\* uses another key.
C1_DecodeUsesConfiguredKey ==
    \A i \in 1..Len(entries) :
        entries[i].entry_id \in DOMAIN objs =>
            objs[entries[i].entry_id].usedKey \in {NoKey, entries[i].data.key}

\* C2: when detect_device_type yields no parser for the payload handed to
\* _process_mfr_data, the decode ends as "unsupported device", and neither
\* a measurement nor the device-model label was emitted or changed and no
\* record was parsed.
C2_UnsupportedEmitsNothing ==
    (dev # NoObj /\ dev.calls = 1 /\ detect_device_type(dev.handed[1]) = "None")
        => /\ dev.outcome = "unsupported"
           /\ Untouched(dev)
           /\ dev.parsed = NoRecord
           /\ dev.usedKey = NoKey

\* C2 witness: an object that already holds measurements decoded a payload
\* with an unknown discriminator.
C2_Witness ==
    /\ dev # NoObj
    /\ dev.cls = "device"
    /\ dev.calls = 1
    /\ dev.handed[1].disc = "unknown"
    /\ ~dev.handed[1].short
    /\ dev.outcome = "unsupported"
    /\ "voltage" \in DOMAIN dev.before

\* C3: _start_update hands to _process_mfr_data only the manufacturer-data
\* item whose identifier is 0x02E1, at most once per advertisement; an
\* advertisement without such an item emits and changes nothing.
C3_OnlyVictronItemDecoded ==
    dev # NoObj /\ dev.n > 0 =>
        /\ dev.calls <= 1
        /\ dev.calls = Len(dev.handed)
        /\ \A j \in 1..Len(dev.handed) :
              \E m \in 1..Len(dev.last.mfr) :
                  /\ dev.last.mfr[m][1] = 737
                  /\ dev.last.mfr[m][2] = dev.handed[j]
        /\ (\A m \in 1..Len(dev.last.mfr) : dev.last.mfr[m][1] # 737)
              => (dev.calls = 0 /\ Untouched(dev))

\* C3 witness: an advertisement with a foreign item before the Victron
\* item was decoded, the Victron item alone being handed on.
C3_Witness ==
    /\ dev # NoObj
    /\ dev.n > 0
    /\ Len(dev.last.mfr) = 2
    /\ dev.last.mfr[1][1] # 737
    /\ dev.calls = 1
    /\ dev.outcome = "ok"
    /\ dev.emitted # << >>

\* C4: a manufacturer payload whose first byte is not the protocol tag 0x10
\* is never handed to a device parser.
C4_ForeignPrefixNeverDecoded ==
    dev # NoObj =>
        \A j \in 1..Len(dev.handed) : dev.handed[j].prefix = 16

\* The records whose getters yield values of the types the mapper's
\* expressions are written for.  The VE.Bus branch calls .lower() on what
\* its getters yield, which works on strings only; whether the parser
\* library yields strings there is not decided by this repository, so the
\* properties below that are refuted are stated without VE.Bus records.
GetterTypesKnown(rec) == rec.variant # "VEBus"

\* C5: no decode propagates an exception out of _start_update.  Stated for
\* the advertisements whose record the parser returned, where the raising
\* statement is the mapper's own.
C5_NoExceptionEscapes ==
    (dev # NoObj /\ dev.parsed # NoRecord /\ GetterTypesKnown(dev.parsed))
        => dev.outcome # "raised"

\* C6: a decode is all-or-nothing: one that aborted has emitted and changed
\* no measurement and has not set the device-model label.
C6_AllOrNothing ==
    ( /\ dev # NoObj
      /\ dev.outcome = "raised"
      /\ dev.parsed # NoRecord => GetterTypesKnown(dev.parsed) )
        => Untouched(dev)

\* C7: no measurement is emitted with a null value: a field whose getter
\* yields None produces no entry.
C7_NoNullMeasurement ==
    dev # NoObj =>
        \A j \in 1..Len(dev.emitted) : dev.values[dev.emitted[j]] # None

\* C8: a record whose only absent fields are enumeration fields (the code
\* was not recognised) is not aborted: the decode completes.
C8_UnknownEnumDoesNotAbort ==
    ( /\ dev # NoObj
      /\ dev.parsed # NoRecord
      /\ GetterTypesKnown(dev.parsed)
      /\ \E x \in EnumFields(dev.parsed.variant) : dev.parsed.f[x] = None
      /\ \A x \in NumFields(dev.parsed.variant) \ AuxFields :
            dev.parsed.f[x].t = "num" )
        => dev.outcome = "ok"

\* The auxiliary signals of a BatteryMonitor and the one an aux mode selects.
AuxKeys == {"midpoint_voltage", "starter_battery_voltage", "temperature"}

SelectedAuxKeys(mode) ==
    IF mode = En("MIDPOINT_VOLTAGE") THEN {"midpoint_voltage"}
    ELSE IF mode = En("STARTER_VOLTAGE") THEN {"starter_battery_voltage"}
    ELSE IF mode = En("TEMPERATURE") THEN {"temperature"}
    ELSE {}

ValidCells(rec) == { i \in 1..Len(rec.cells) : rec.cells[i].t = "num" }

EmittedCells(o) == { i \in 1..16 : CellKeyTable[i] \in Range(o.emitted) }

\* C10: the decode of a SmartLithium record by the mapper of device.py
\* emits cell_voltage_i exactly for the cells i that hold a reading, with
\* the reading of cell i as its value, so the number of cell entries is the
\* number of valid cells.
C10_CellVoltagesEmittedIffValid ==
    (dev # NoObj /\ dev.cls = "device" /\ dev.parsed # NoRecord
       /\ dev.parsed.variant = "SmartLithium")
        => /\ EmittedCells(dev) = ValidCells(dev.parsed)
           /\ \A i \in EmittedCells(dev) :
                 dev.values[CellKeyTable[i]] = dev.parsed.cells[i]
           /\ Cardinality({ j \in 1..Len(dev.emitted) :
                              \E i \in 1..16 : dev.emitted[j] = CellKeyTable[i] })
                 = Cardinality(ValidCells(dev.parsed))

\* C10 witness: a record with exactly 4 valid cells, another cell being
\* the sentinel or infinite, was decoded into exactly 4 cell entries.
C10_Witness ==
    /\ dev # NoObj
    /\ dev.cls = "device"
    /\ dev.parsed # NoRecord
    /\ dev.parsed.variant = "SmartLithium"
    /\ Cardinality(ValidCells(dev.parsed)) = 4
    /\ Len(dev.parsed.cells) > 4
    /\ Cardinality(EmittedCells(dev)) = 4

\* A number of hundredths equals a product of two readings in hundredths
\* (held in 1/10000) to the two decimals update_sensor keeps.
IsProduct(val, p) ==
    /\ val.t = "num"
    /\ 100 * val.n - p <= 50
    /\ p - 100 * val.n <= 50

\* The decode by the mapper of device.py parsed a record of this variant.
Decoded(variant) ==
    /\ dev # NoObj
    /\ dev.cls = "device"
    /\ dev.parsed # NoRecord
    /\ dev.parsed.variant = variant

Emitted(key) == key \in Range(dev.emitted)

BothNum(a, b) == a.t = "num" /\ b.t = "num"

\* C11: the derived measurements are computed from the decoded fields of
\* the same record: for BatteryMonitor, power is voltage * current and
\* consumed_energy is -(voltage * consumed_ah), which is >= 0 for voltage
\* >= 0 and consumed_ah <= 0; for AcCharger, output power is output_current1
\* * output_voltage1; for LynxSmartBMS, power is voltage * current.  Each is
\* emitted by every completed decode whose operands are numbers.
C11_DerivedFromDecodedFields ==
    /\ Decoded("BatteryMonitor") =>
          LET v == dev.parsed.f["voltage"]
              c == dev.parsed.f["current"]
              ah == dev.parsed.f["consumed_ah"]
          IN  /\ Emitted("output_power") =>
                    IsProduct(dev.values["output_power"], v.n * c.n)
              /\ Emitted("consumed_energy") =>
                    /\ IsProduct(dev.values["consumed_energy"], -(v.n * ah.n))
                    /\ (v.n >= 0 /\ ah.n <= 0) => dev.values["consumed_energy"].n >= 0
              /\ (dev.outcome = "ok" /\ BothNum(v, c)) => Emitted("output_power")
              /\ (dev.outcome = "ok" /\ BothNum(v, ah)) => Emitted("consumed_energy")
    /\ Decoded("AcCharger") =>
          LET v == dev.parsed.f["output_voltage1"]
              c == dev.parsed.f["output_current1"]
          IN  /\ Emitted("output_power") =>
                    IsProduct(dev.values["output_power"], c.n * v.n)
              /\ (dev.outcome = "ok" /\ BothNum(v, c)) => Emitted("output_power")
    /\ Decoded("LynxSmartBMS") =>
          LET v == dev.parsed.f["voltage"]
              c == dev.parsed.f["current"]
          IN  /\ Emitted("output_power") =>
                    IsProduct(dev.values["output_power"], v.n * c.n)
              /\ (dev.outcome = "ok" /\ BothNum(v, c)) => Emitted("output_power")

\* C11 witness: a BatteryMonitor record with positive voltage and negative
\* consumed_ah was decoded and a positive consumed_energy emitted.
C11_Witness ==
    /\ Decoded("BatteryMonitor")
    /\ dev.outcome = "ok"
    /\ dev.parsed.f["voltage"].n > 0
    /\ dev.parsed.f["consumed_ah"].n < 0
    /\ Emitted("consumed_energy")
    /\ dev.values["consumed_energy"].n > 0
    /\ Emitted("output_power")
    /\ dev.values["output_power"].n < 0

\* C12: the measurement set update() reports for an advertisement is built
\* from that advertisement alone: it holds no entry other than those the
\* decode of this advertisement emitted (and the signal strength), whatever
\* was decoded before.
C12_SetBuiltFresh ==
    (dev # NoObj /\ dev.n > 0 /\ dev.outcome # "raised")
        => DOMAIN Sans(dev.values) \subseteq Range(dev.emitted)

\* C13: the mapper is exhaustive over the 13 record variants: a parsed
\* record of any variant reaches a branch written for it, so a decode that
\* completes has emitted at least one measurement of the record.
C13_MapperExhaustive ==
    (dev # NoObj /\ dev.parsed # NoRecord /\ dev.parsed.variant \in Variants
       /\ dev.outcome = "ok")
        => dev.emitted # << >>

\* What a decode yields and leaves behind: the measurement set with its
\* descriptions, the device-model label and device attributes, and the
\* result of the last update.
Core(o) ==
    [values |-> o.values, descs |-> o.descs, device_type |-> o.device_type,
     device_name |-> o.device_name, manufacturer |-> o.manufacturer,
     precision |-> o.precision, emitted |-> o.emitted, outcome |-> o.outcome,
     parsed |-> o.parsed]

\* C14: decoding the advertisement that was decoded last once more yields
\* the same measurement set (keys, values, device-model label) and leaves
\* the object in the state the first decode left it in.
C14_Idempotent ==
    [][ (dev # NoObj /\ dev.n > 0 /\ dev' # NoObj /\ dev'.n = dev.n + 1
           /\ dev'.last = dev.last)
          => Core(dev') = Core(dev) ]_vars

\* C14 witness: the same advertisement was decoded twice in a row by an
\* object, each time emitting measurements.
C14_Witness ==
    /\ dev # NoObj
    /\ dev.n >= 2
    /\ dev.prev = dev.last
    /\ dev.outcome = "ok"
    /\ Len(dev.emitted) > 2
    /\ Sans(dev.values) = Sans(dev.before)

\* C15: SENSOR_DESCRIPTIONS has an entry for every (signal key, native
\* unit) pair the mapper, the predefined sensors and the signal strength
\* produce, cell_voltage_1 .. cell_voltage_16 included, so the conversion
\* of a sensor update never fails its table lookup.
C15_EveryEmittedPairDescribed ==
    /\ \A i \in 1..NumCellKeys : Lookup(cell_voltage_keys(i), "V") # {}
    /\ dev # NoObj => ~sensor_update_to_bluetooth_data_update(dev).raise

\* C15 witness: a LynxSmartBMS record was decoded, its consumed_ah carrying
\* no unit, and the update with the signal strength was converted.
C15_Witness ==
    /\ Decoded("LynxSmartBMS")
    /\ dev.outcome = "ok"
    /\ "signal_strength" \in DOMAIN dev.descs
    /\ "consumed_ah" \in DOMAIN dev.descs
    /\ dev.descs["consumed_ah"].unit = "None"
    /\ ~sensor_update_to_bluetooth_data_update(dev).raise

\* C16: a decode whose parser returned a record has set the device-model
\* label to the model name of that record, in particular whenever
\* measurements of the record were emitted.
C16_LabelIsModelOfParsedRecord ==
    (dev # NoObj /\ dev.parsed # NoRecord)
        => dev.device_type = dev.parsed.model

\* C17: a field that is present with the value 0 is emitted like any other
\* value: a completed decode of a SolarCharger record whose
\* external_device_load is a number emits it with that number, and a
\* completed decode of a BatteryMonitor record in aux mode TEMPERATURE whose
\* temperature is a number emits it with that number.
C17_ZeroIsNotAbsent ==
    /\ (Decoded("SolarCharger") /\ dev.outcome = "ok"
           /\ dev.parsed.f["external_device_load"].t = "num")
          => /\ Emitted("external_device_load")
             /\ dev.values["external_device_load"] = dev.parsed.f["external_device_load"]
    /\ (dev # NoObj /\ dev.parsed # NoRecord /\ dev.parsed.variant = "BatteryMonitor"
           /\ dev.outcome = "ok"
           /\ dev.parsed.f["aux_mode"] = En("TEMPERATURE")
           /\ dev.parsed.f["temperature"].t = "num")
          => /\ Emitted("temperature")
             /\ dev.values["temperature"] = dev.parsed.f["temperature"]

\* C18: the decode of a BatteryMonitor record in aux mode TEMPERATURE with
\* voltage 12.8 V, current -2.5 A, state of charge 87 % and temperature
\* 23.4 C emits exactly five entries: voltage 12.8, current -2.5, state of
\* charge 87, temperature 23.4 and power -32.0 (under the keys the code
\* gives them: battery, output_power), and neither midpoint_voltage nor
\* starter_battery_voltage.
C18_BatteryMonitorScenario ==
    ( /\ dev # NoObj
      /\ dev.parsed # NoRecord
      /\ dev.parsed.variant = "BatteryMonitor"
      /\ dev.parsed.f["aux_mode"] = En("TEMPERATURE")
      /\ dev.parsed.f["voltage"] = Num(1280)
      /\ dev.parsed.f["current"] = Num(-250)
      /\ dev.parsed.f["soc"] = Num(8700)
      /\ dev.parsed.f["temperature"] = Num(2340) )
        => /\ Range(dev.emitted) =
                {"voltage", "current", "battery", "temperature", "output_power"}
           /\ dev.values["voltage"] = Num(1280)
           /\ dev.values["current"] = Num(-250)
           /\ dev.values["battery"] = Num(8700)
           /\ dev.values["temperature"] = Num(2340)
           /\ dev.values["output_power"] = Num(-3200)

\* C19: a key that is not exactly 16 bytes is rejected: no config entry
\* holding such a key is set up and used, and no decode for such an entry
\* emits measurements.
C19_KeyLengthChecked ==
    \A i \in 1..Len(entries) :
        KeyBytes(entries[i].data.key) # 16 =>
            /\ entries[i].state # "loaded"
            /\ entries[i].entry_id \in DOMAIN objs =>
                  objs[entries[i].entry_id].emitted = << >>

\* The object of entry i after update() with one of the advertisements of
\* the entry's own device.
OwnUpdates(i) ==
    LET id == entries[i].entry_id IN
    { [DataUpdate(objs[id], [si EXCEPT !.address = entries[i].unique_id])
          EXCEPT !.n = objs[id].n + 1] : si \in EntryAdverts(entries[i]) }

\* C20: the decodes of different config entries share no mutable state: in
\* every step, the data object of an entry either stays as it is or becomes
\* what update() makes of its own state and an advertisement of its own
\* device, and then no other entry's object changes.  So measurement set and
\* device-model label of an entry are what its own advertisements alone
\* produce, under every interleaving.
C20_EntriesShareNoState ==
    [][ \A i \in 1..Len(entries) :
          LET id == entries[i].entry_id IN
          (id \in DOMAIN objs /\ id \in DOMAIN objs' /\ objs'[id] # objs[id]) =>
                   /\ objs'[id] \in OwnUpdates(i)
                   /\ \A other \in DOMAIN objs \ {id} :
                         other \in DOMAIN objs' /\ objs'[other] = objs[other] ]_vars

\* C20 witness: two entries are loaded and each object has decoded an
\* advertisement of its own device, one a BatteryMonitor and the other a
\* DcEnergyMeter reading, the latter holding no state of charge.
C20_Witness ==
    \E a, b \in DOMAIN objs :
        /\ a # b
        /\ objs[a].n >= 1
        /\ objs[b].n >= 1
        /\ objs[a].parsed # NoRecord
        /\ objs[b].parsed # NoRecord
        /\ objs[a].parsed.variant = "BatteryMonitor"
        /\ objs[b].parsed.variant = "DcEnergyMeter"
        /\ "battery" \in DOMAIN objs[a].values
        /\ "battery" \notin DOMAIN objs[b].values

\* C21: a manufacturer payload shorter than the header is rejected before
\* device-type detection or parsing is attempted: it is not handed to
\* _process_mfr_data, the update does not raise, and nothing is emitted or
\* changed.
C21_TooShortRejectedFirst ==
    (dev # NoObj /\ dev.n > 0
       /\ \E m \in 1..Len(dev.last.mfr) :
             dev.last.mfr[m][1] = VICTRON_MFR_ID /\ dev.last.mfr[m][2].short)
        => /\ dev.calls = 0
           /\ dev.outcome # "raised"
           /\ Untouched(dev)

\* C26: within one decode the signal keys the mapper emits are pairwise
\* distinct: no measurement of a record overwrites another one of the same
\* record, and the number of entries emitted is the number of emit calls.
C26_KeysDistinctWithinRecord ==
    dev # NoObj =>
        /\ \A a, b \in 1..Len(dev.emitted) :
              dev.emitted[a] = dev.emitted[b] => a = b
        /\ Cardinality(Range(dev.emitted)) = Len(dev.emitted)

\* C26 witness: an AcCharger record was decoded into seven entries, the
\* output current and the AC current among them under different keys.
C26_Witness ==
    /\ Decoded("AcCharger")
    /\ dev.outcome = "ok"
    /\ Len(dev.emitted) = 7
    /\ {"output_current", "current"} \subseteq Range(dev.emitted)

\* C27: the device class a measurement is emitted with is the device class
\* of the SENSOR_DESCRIPTIONS entry selected for its (signal key, native
\* unit) pair.
C27_DeviceClassMatchesTable ==
    dev # NoObj =>
        \A j \in 1..Len(dev.emitted) :
            LET k == dev.emitted[j] IN
            \A d \in Lookup(k, dev.descs[k].unit) : d.dc = dev.descs[k].dc

\* C29: the conversion passes values through unchanged: entity_data and
\* entity_names have exactly the keys of the update's entity_values, each
\* entity_data value is the native value and each entity_names value the
\* name of that key, entity_descriptions has an entry exactly for the
\* descriptions that carry a device key, and an entity's native_value is the
\* entity_data value of its key.
C29_ValuesPassThrough ==
    (dev # NoObj /\ dev.n > 0) =>
        LET su == SensorUpdateOf(dev)
            r == sensor_update_to_bluetooth_data_update(dev)
        IN  /\ DOMAIN r.entity_data = DOMAIN su.entity_values
            /\ DOMAIN r.entity_names = DOMAIN su.entity_values
            /\ \A k \in DOMAIN su.entity_values :
                  /\ r.entity_data[k] = su.entity_values[k].native_value
                  /\ r.entity_names[k] = su.entity_values[k].name
                  /\ native_value(dev, k) = dev.values[k]
            /\ DOMAIN r.entity_descriptions =
                  { k \in DOMAIN su.entity_descriptions :
                      su.entity_descriptions[k].device_key # "None" }

\* C29 witness: the update of a BatteryMonitor record with a negative
\* current and no time remaining was converted, both values arriving as
\* they were stored.
C29_Witness ==
    /\ Decoded("BatteryMonitor")
    /\ dev.outcome = "ok"
    /\ dev.values["time_remaining"] = None
    /\ native_value(dev, "time_remaining") = None
    /\ native_value(dev, "current") = Num(-250)
    /\ native_value(dev, "signal_strength") = Num(-6000)

\* C22: async_setup_entry stores the coordinator in hass.data[DOMAIN], then
\* forwards the sensor platform, which finds the coordinator and registers
\* its processor, and only then starts the coordinator: a started
\* coordinator had a processor subscribed when it was started, and the
\* platform never looked up a coordinator that was not stored.
C22_StoreForwardStart ==
    \A i \in 1..Len(entries) :
        /\ entries[i].state = "loaded" =>
              /\ entries[i].steps = <<"store", "forward", "start">>
              /\ entries[i].subscribed_at_start
              /\ entries[i].entry_id \in hassData
        /\ entries[i].platform_lookup \in {"none", "found"}
        /\ "start" \in Range(entries[i].steps) => entries[i].subscribed_at_start

\* C22 witness: an entry was set up: its coordinator is stored, the sensor
\* platform found it and registered one processor, and it was started.
C22_Witness ==
    \E i \in 1..Len(entries) :
        /\ entries[i].state = "loaded"
        /\ entries[i].platform_lookup = "found"
        /\ entries[i].processors = 1
        /\ entries[i].subscribed_at_start
        /\ entries[i].entry_id \in hassData

\* C23: at most one config entry, and hence one key, exists per device
\* address: no two entries hold the same address, and a discovery for a
\* configured address has aborted without showing the form.
C23_OneEntryPerAddress ==
    /\ \A i, j \in 1..Len(entries) :
          entries[i].data.address = entries[j].data.address => i = j
    /\ (flow.source = "bluetooth" /\ flow.step = "form")
          => ~Configured(flow.unique_id)

\* C24: every config entry the config flow creates has a unique id (the
\* device address), so the assertion of async_setup_entry never fails.
C24_UniqueIdNeverNone ==
    \A i \in 1..Len(entries) :
        /\ entries[i].unique_id # NoneStr
        /\ entries[i].state # "setup_error"

\* C25: hass.data[DOMAIN] holds a coordinator under an entry's id exactly
\* when the entry was set up and has not since been successfully unloaded,
\* and under no other id: a successful unload returned true and removed
\* that entry's coordinator alone, a failed unload returned false and left
\* hass.data[DOMAIN] as it was.
C25_HassDataTracksSetup ==
    /\ hassData \subseteq { entries[i].entry_id : i \in 1..Len(entries) }
    /\ \A i \in 1..Len(entries) :
          LET id == entries[i].entry_id IN
          /\ id \in hassData <=> entries[i].state \in {"loaded", "failed_unload"}
          /\ entries[i].unload_result = "true"
                => (entries[i].state = "not_loaded" /\ id \notin hassData)
          /\ entries[i].unload_result = "false"
                => (entries[i].state = "failed_unload" /\ id \in hassData)
          /\ entries[i].state = "failed_unload" => entries[i].unload_result = "false"

\* C25 witness: of two entries that were set up, one was unloaded
\* successfully and the other is still loaded with its coordinator stored.
C25_Witness ==
    \E i, j \in 1..Len(entries) :
        /\ entries[i].unload_result = "true"
        /\ entries[i].entry_id \notin hassData
        /\ entries[j].state = "loaded"
        /\ hassData = {entries[j].entry_id}

\* C28: async_step_user called without input shows the form and creates
\* no entry, the form's name and address defaults being those of the
\* discovery context in a flow started by bluetooth discovery and None
\* otherwise; called with the submitted input it creates exactly one entry,
\* titled user_input["name"], whose data is user_input as submitted, the
\* key included.
C28_FormThenOneEntry ==
    [][ /\ (flow' # flow /\ flow'.step = "form") =>
              /\ entries' = entries
              /\ flow'.default_name =
                    (IF flow'.source = "bluetooth" THEN flow'.discovery_name ELSE NoneStr)
              /\ flow'.default_address =
                    (IF flow'.source = "bluetooth" THEN flow'.discovery_address ELSE NoneStr)
        /\ (flow.step = "form" /\ flow'.step # "form") =>
              /\ flow'.step = "created"
              /\ flow'.user_input \in UserInputs
              /\ Len(entries') = Len(entries) + 1
              /\ SubSeq(entries', 1, Len(entries)) = entries
              /\ entries'[Len(entries')].title = flow'.user_input.name
              /\ entries'[Len(entries')].data = flow'.user_input ]_vars

\* C28 witness: a flow started by discovery was submitted with a name and
\* an address other than the form's defaults and a key that is no 16-byte
\* key, and the entry carries all three.
C28_Witness ==
    /\ flow.step = "created"
    /\ flow.source = "bluetooth"
    /\ flow.user_input.name # flow.default_name
    /\ flow.user_input.address # flow.default_address
    /\ flow.user_input.key = ShortKey
    /\ Len(entries) > 0
    /\ entries[Len(entries)].title = flow.user_input.name
    /\ entries[Len(entries)].data = flow.user_input

\* C30: async_step_unignore, having set the flow's unique id, returns an
\* abort result with reason "discovery_error": it never ends without a
\* flow result, and it creates no entry.
C30_UnignoreAborts ==
    flow.source = "unignore" =>
        /\ flow.step = "aborted"
        /\ flow.reason = "discovery_error"

====
